---- MODULE Spec2Model ----
(***************************************************************************)
(* The MySQL short-URL store, src/src/infra/src/short_url/mysql.rs:        *)
(* the short_urls table behind the shared connection pool and the twelve   *)
(* operations of `impl ShortUrl for MysqlShortUrl`.                        *)
(*                                                                         *)
(* Every operation is one request to the backend, which executes a         *)
(* statement atomically, so it is one action.  `add` is the exception: it  *)
(* reads the process clock (line 73) and then awaits the INSERT, so it is  *)
(* two actions and other calls run between them.  A request either reaches *)
(* the backend or fails in the driver (`net`).                             *)
(***************************************************************************)
EXTENDS Integers, Sequences, FiniteSets

\* ---------------------------------------------------------------- bounds
MaxClock == 1
MaxRows == 3

ShortIds == {"a", "b"}
Urls == {"u1", "u2"}
Callers == {"c1", "c2"}

\* Option<i64>
None == [some |-> FALSE, value |-> 0]
Some(n) == [some |-> TRUE, value |-> n]
Limits == {None, Some(0), Some(1)}
Cutoffs == 0..MaxClock
\* Vec<String> arguments of batch_remove (repetitions allowed)
IdLists == UNION {[1..n -> ShortIds] : n \in 0..2}

VARIABLES
    tableExists,   \* short_urls has been created
    uniqueIdx,     \* short_urls_short_id_idx (UNIQUE) exists
    tsIdx,         \* short_urls_created_ts_idx exists
    rows,          \* the rows of short_urls
    nextId,        \* the AUTO_INCREMENT counter of column id
    clock,         \* Utc::now().timestamp_micros() of the process
    pc,            \* per caller: "idle", or "insert" (inside add, after line 73)
    created_ts,    \* per caller inside add: the local created_ts
    sweep,         \* the expiration sweep between its two calls
    last           \* the call that completed last, with what it returned

vars == <<tableExists, uniqueIdx, tsIdx, rows, nextId, clock, pc, created_ts, sweep, last>>

\* ---------------------------------------------------------------- values
Range(q) == {q[i] : i \in DOMAIN q}

\* ShortUrlRecord: what get and list select
ShortUrlRecord(r) == [short_id |-> r.short_id, original_url |-> r.original_url]

NoError == [variant |-> "", source |-> ""]
\* Error::DbError(DbError::UniqueViolation)
UniqueViolation == [variant |-> "DbError", source |-> "UniqueViolation"]
\* The conversion `?` applies to a sqlx::Error: the driver's error is carried
\* through, untranslated in kind.
FromSqlx(e) == [variant |-> "SqlxError", source |-> e]

\* What the driver answers to one request: Ok, or a sqlx::Error
\* ("Io", "RowNotFound", "Database", or "DatabaseUnique": a Database error
\* whose is_unique_violation() is true).
SqlxOk == [ok |-> TRUE, err |-> ""]
SqlxErr(e) == [ok |-> FALSE, err |-> e]

Blank == [op |-> "", net |-> TRUE, sid |-> "", url |-> "", limit |-> None,
          cutoff |-> 0, ids |-> <<>>, ok |-> TRUE, err |-> NoError,
          recs |-> <<>>, flag |-> FALSE, num |-> 0]

NoSweep == [active |-> FALSE, cutoff |-> 0, ids |-> <<>>]

\* ---------------------------------------------------------------- backend
Matching(rs, s) == {r \in rs : r.short_id = s}

\* Every order a statement may return the rows `rs` in (injective sequences).
Orders(rs) ==
    {q \in [1..Cardinality(rs) -> rs] : \A i, j \in DOMAIN q : i # j => q[i] # q[j]}

Prefix(q, limit) ==
    IF limit.some /\ limit.value < Len(q) THEN SubSeq(q, 1, limit.value) ELSE q

\* Mutant: ORDER BY created_ts ASC.
SortedAsc(q) == \A i, j \in DOMAIN q : i < j => q[i].created_ts <= q[j].created_ts

\* ORDER BY created_ts DESC
SortedDesc(q) == \A i, j \in DOMAIN q : i < j => q[i].created_ts >= q[j].created_ts

\* A statement on short_urls: fails in the driver, or in the backend when the
\* table is missing.
Request(net) ==
    IF ~net THEN SqlxErr("Io")
    ELSE IF ~tableExists THEN SqlxErr("Database")
    ELSE SqlxOk

\* Mutant: an INSERT the unique index does not guard.
InsertUnguarded(net, s) == Request(net)

\* INSERT INTO short_urls (short_id, original_url, created_ts) VALUES (?, ?, ?)
Insert(net, s) ==
    IF ~Request(net).ok THEN Request(net)
    ELSE IF uniqueIdx /\ Matching(rows, s) # {} THEN SqlxErr("DatabaseUnique")
    ELSE SqlxOk

\* Mutant: short_id and original_url bound in the wrong order.
NewRowSwapped(s, u, ts) ==
    [id |-> nextId, short_id |-> u, original_url |-> s, created_ts |-> ts]

\* Mutant: created_ts left unbound.
NewRowUnstamped(s, u, ts) ==
    [id |-> nextId, short_id |-> s, original_url |-> u, created_ts |-> 0]

NewRow(s, u, ts) ==
    [id |-> nextId, short_id |-> s, original_url |-> u, created_ts |-> ts]

\* Mutant: only the first short_id is bound.
DeleteFirst(rs, ids) == {r \in rs : ids = <<>> \/ r.short_id # ids[1]}

\* DELETE FROM short_urls WHERE short_id IN (?, ...)
DeleteIn(rs, ids) == {r \in rs : r.short_id \notin Range(ids)}

\* Mutant: WHERE created_ts <= ?
ExpiredInclusive(rs, cutoff) == {r \in rs : r.created_ts <= cutoff}

\* SELECT short_id FROM short_urls WHERE created_ts < ?
Expired(rs, cutoff) == {r \in rs : r.created_ts < cutoff}

\* ---------------------------------------------------------------- operations
Init ==
    /\ tableExists = TRUE
    /\ uniqueIdx = TRUE
    /\ tsIdx = TRUE
    /\ rows = {}
    /\ nextId = 1
    /\ clock = 0
    /\ pc = [c \in Callers |-> "idle"]
    /\ created_ts = [c \in Callers |-> 0]
    /\ sweep = NoSweep
    /\ last = Blank

\* The process clock advances between calls.
Tick ==
    /\ clock < MaxClock
    /\ clock' = clock + 1
    /\ last' = [Blank EXCEPT !.op = "tick"]
    /\ UNCHANGED <<tableExists, uniqueIdx, tsIdx, rows, nextId, pc, created_ts, sweep>>

\* CREATE TABLE IF NOT EXISTS short_urls (id BIGINT AUTO_INCREMENT PRIMARY KEY,
\* short_id VARCHAR(32) NOT NULL, original_url TEXT NOT NULL,
\* created_ts BIGINT NOT NULL): no UNIQUE constraint on short_id.
create_table(net) ==
    LET r == IF net THEN SqlxOk ELSE SqlxErr("Io") IN
    /\ tableExists' = (tableExists \/ r.ok)
    /\ last' = [Blank EXCEPT !.op = "create_table", !.net = net, !.ok = r.ok,
                             !.err = IF r.ok THEN NoError ELSE FromSqlx(r.err)]
    /\ UNCHANGED <<uniqueIdx, tsIdx, rows, nextId, clock, pc, created_ts, sweep>>

\* db::mysql::create_index(name, table, unique, fields): creates the index if
\* it is absent; a UNIQUE index cannot be built over rows that share a key.
create_index(net, exists, unique) ==
    IF ~net THEN SqlxErr("Io")
    ELSE IF exists THEN SqlxOk
    ELSE IF ~tableExists THEN SqlxErr("Database")
    ELSE IF unique /\ (\E r1, r2 \in rows : r1 # r2 /\ r1.short_id = r2.short_id)
         THEN SqlxErr("DatabaseUnique")
    ELSE SqlxOk

create_table_index(net1, net2) ==
    LET r1 == create_index(net1, uniqueIdx, TRUE)
        r2 == create_index(net2, tsIdx, FALSE)
        r == IF r1.ok THEN r2 ELSE r1
    IN
    /\ uniqueIdx' = (uniqueIdx \/ r1.ok)
    /\ tsIdx' = (tsIdx \/ (r1.ok /\ r2.ok))
    /\ last' = [Blank EXCEPT !.op = "create_table_index", !.net = net1 /\ (r1.ok => net2),
                             !.ok = r.ok,
                             !.err = IF r.ok THEN NoError ELSE FromSqlx(r.err)]
    /\ UNCHANGED <<tableExists, rows, nextId, clock, pc, created_ts, sweep>>

\* let created_ts = Utc::now().timestamp_micros();
UtcNow == clock

InFlight == {c \in Callers : pc[c] = "insert"}

\* add up to the clock read.  MaxRows caps the inserts of a run: an add starts
\* only while an id is left for it and for every add in flight.
add_begin(c) ==
    /\ pc[c] = "idle"
    /\ nextId + Cardinality(InFlight) <= MaxRows
    /\ pc' = [pc EXCEPT ![c] = "insert"]
    /\ created_ts' = [created_ts EXCEPT ![c] = UtcNow]
    /\ last' = [Blank EXCEPT !.op = "add_begin"]
    /\ UNCHANGED <<tableExists, uniqueIdx, tsIdx, rows, nextId, clock, sweep>>

\* Mutant: the unique-violation arm is missing.
AddErrorUnmapped(r) ==
    IF r.ok THEN NoError ELSE [variant |-> "SqlxError", source |-> r.err]

\* match result { Ok(_) => Ok(()),
\*   Err(sqlx::Error::Database(err)) if err.is_unique_violation() =>
\*       Err(Error::DbError(DbError::UniqueViolation)),
\*   Err(e) => Err(Error::SqlxError(e)) }
AddError(r) ==
    IF r.ok THEN NoError
    ELSE IF r.err = "DatabaseUnique" THEN UniqueViolation
    ELSE [variant |-> "SqlxError", source |-> r.err]

\* The INSERT of add and the match on its result.  short_id and original_url
\* are not read before the statement is bound, so they are drawn here.
add(c, s, u, net) ==
    LET r == Insert(net, s) IN
    /\ pc[c] = "insert"
    /\ rows' = IF r.ok THEN rows \cup {NewRow(s, u, created_ts[c])} ELSE rows
    /\ nextId' = IF r.ok THEN nextId + 1 ELSE nextId
    /\ pc' = [pc EXCEPT ![c] = "idle"]
    /\ created_ts' = [created_ts EXCEPT ![c] = 0]
    /\ last' = [Blank EXCEPT !.op = "add", !.net = net, !.sid = s, !.url = u,
                             !.ok = r.ok, !.err = AddError(r)]
    /\ UNCHANGED <<tableExists, uniqueIdx, tsIdx, clock, sweep>>

\* DELETE FROM short_urls WHERE short_id = ?
remove(s, net) ==
    LET r == Request(net) IN
    /\ rows' = IF r.ok THEN rows \ Matching(rows, s) ELSE rows
    /\ last' = [Blank EXCEPT !.op = "remove", !.net = net, !.sid = s, !.ok = r.ok,
                             !.err = IF r.ok THEN NoError ELSE FromSqlx(r.err)]
    /\ UNCHANGED <<tableExists, uniqueIdx, tsIdx, nextId, clock, pc, created_ts, sweep>>

\* Mutant: an empty answer reported as a database error.
FetchOneGeneric(m) == IF m = {} THEN SqlxErr("Database") ELSE SqlxOk

\* fetch_one: the first row of the answer, or sqlx::Error::RowNotFound
FetchOne(m) == IF m = {} THEN SqlxErr("RowNotFound") ELSE SqlxOk

\* SELECT short_id, original_url FROM short_urls WHERE short_id = ?
GetResults(s, net) ==
    LET r == Request(net)
        m == Matching(rows, s)
        f == IF r.ok THEN FetchOne(m) ELSE r
        call == [Blank EXCEPT !.op = "get", !.net = net, !.sid = s]
    IN  IF ~f.ok THEN {[call EXCEPT !.ok = FALSE, !.err = FromSqlx(f.err)]}
        ELSE {[call EXCEPT !.recs = <<ShortUrlRecord(row)>>] : row \in m}

get(s, net) ==
    /\ \E out \in GetResults(s, net) : last' = out
    /\ UNCHANGED <<tableExists, uniqueIdx, tsIdx, rows, nextId, clock, pc, created_ts, sweep>>

\* SELECT short_id, original_url FROM short_urls ORDER BY created_ts DESC [LIMIT ?]
ListAnswers(limit) ==
    {Prefix(q, limit) : q \in {o \in Orders(rows) : SortedDesc(o)}}

Records(q) == [i \in DOMAIN q |-> ShortUrlRecord(q[i])]

ListResults(limit, net) ==
    LET r == Request(net)
        call == [Blank EXCEPT !.op = "list", !.net = net, !.limit = limit]
    IN  IF ~r.ok THEN {[call EXCEPT !.ok = FALSE, !.err = FromSqlx(r.err)]}
        ELSE {[call EXCEPT !.recs = Records(q)] : q \in ListAnswers(limit)}

list(limit, net) ==
    /\ \E out \in ListResults(limit, net) : last' = out
    /\ UNCHANGED <<tableExists, uniqueIdx, tsIdx, rows, nextId, clock, pc, created_ts, sweep>>

\* SELECT 1 FROM short_urls WHERE short_id = ?;  Ok(!rows.is_empty())
Contains(rs, s) == Matching(rs, s) # {}

contains(s, net) ==
    LET r == Request(net) IN
    /\ last' = [Blank EXCEPT !.op = "contains", !.net = net, !.sid = s, !.ok = r.ok,
                             !.err = IF r.ok THEN NoError ELSE FromSqlx(r.err),
                             !.flag = r.ok /\ Contains(rows, s)]
    /\ UNCHANGED <<tableExists, uniqueIdx, tsIdx, rows, nextId, clock, pc, created_ts, sweep>>

\* SELECT COUNT(*) AS num FROM short_urls;  Err(e) => return 0
Count(net) == IF Request(net).ok THEN Cardinality(rows) ELSE 0

len(net) ==
    /\ last' = [Blank EXCEPT !.op = "len", !.net = net, !.num = Count(net)]
    /\ UNCHANGED <<tableExists, uniqueIdx, tsIdx, rows, nextId, clock, pc, created_ts, sweep>>

\* Mutant: the failure of the DELETE is returned.
clear_propagating(net) ==
    LET r == Request(net) IN
    /\ rows' = IF r.ok THEN {} ELSE rows
    /\ last' = [Blank EXCEPT !.op = "clear", !.net = net, !.ok = r.ok,
                             !.err = IF r.ok THEN NoError ELSE FromSqlx(r.err)]
    /\ UNCHANGED <<tableExists, uniqueIdx, tsIdx, nextId, clock, pc, created_ts, sweep>>

\* DELETE FROM short_urls;  both arms of the match log, then Ok(())
clear(net) ==
    LET r == Request(net) IN
    /\ rows' = IF r.ok THEN {} ELSE rows
    /\ last' = [Blank EXCEPT !.op = "clear", !.net = net]
    /\ UNCHANGED <<tableExists, uniqueIdx, tsIdx, nextId, clock, pc, created_ts, sweep>>

\* self.len().await == 0
is_empty(net) ==
    /\ last' = [Blank EXCEPT !.op = "is_empty", !.net = net, !.flag = (Count(net) = 0)]
    /\ UNCHANGED <<tableExists, uniqueIdx, tsIdx, rows, nextId, clock, pc, created_ts, sweep>>

\* SELECT short_id FROM short_urls WHERE created_ts < ? [LIMIT ?], in the
\* backend's order; .map(|(short_id,)| short_id)
ShortIdsOf(q) == [i \in DOMAIN q |-> q[i].short_id]

GetExpiredResults(expired_before, limit, net) ==
    LET r == Request(net)
        call == [Blank EXCEPT !.op = "get_expired", !.net = net,
                              !.cutoff = expired_before, !.limit = limit]
    IN  IF ~r.ok THEN {[call EXCEPT !.ok = FALSE, !.err = FromSqlx(r.err)]}
        ELSE {[call EXCEPT !.ids = ShortIdsOf(Prefix(q, limit))] :
                 q \in Orders(Expired(rows, expired_before))}

get_expired(expired_before, limit, net) ==
    /\ \E out \in GetExpiredResults(expired_before, limit, net) : last' = out
    /\ UNCHANGED <<tableExists, uniqueIdx, tsIdx, rows, nextId, clock, pc, created_ts, sweep>>

\* if short_ids.is_empty() { return Ok(()); }  then one DELETE ... IN (?, ...)
BatchRemoveCall(short_ids, net) ==
    LET r == IF short_ids = <<>> THEN SqlxOk ELSE Request(net) IN
    /\ rows' = IF r.ok THEN DeleteIn(rows, short_ids) ELSE rows
    /\ last' = [Blank EXCEPT !.op = "batch_remove", !.net = net, !.ids = short_ids,
                             !.ok = r.ok,
                             !.err = IF r.ok THEN NoError ELSE FromSqlx(r.err)]
    /\ UNCHANGED <<tableExists, uniqueIdx, tsIdx, nextId, clock, pc, created_ts>>

batch_remove(short_ids, net) ==
    /\ BatchRemoveCall(short_ids, net)
    /\ UNCHANGED sweep

\* The expiration sweep: get_expired(now - TTL, limit), then batch_remove of
\* what it returned.
sweep_get_expired(ttl, limit, net) ==
    /\ ~sweep.active
    /\ \E out \in GetExpiredResults(clock - ttl, limit, net) :
          /\ last' = out
          /\ sweep' = IF out.ok
                      THEN [active |-> TRUE, cutoff |-> clock - ttl, ids |-> out.ids]
                      ELSE NoSweep
    /\ UNCHANGED <<tableExists, uniqueIdx, tsIdx, rows, nextId, clock, pc, created_ts>>

sweep_batch_remove(net) ==
    /\ sweep.active
    /\ BatchRemoveCall(sweep.ids, net)
    /\ sweep' = NoSweep

\* ---------------------------------------------------------------- specifications
\* The store after bootstrap: every operation of the interface.
Next ==
    \/ Tick
    \/ \E net \in BOOLEAN : create_table(net)
    \/ \E net1, net2 \in BOOLEAN : create_table_index(net1, net2)
    \/ \E c \in Callers : add_begin(c)
    \/ \E c \in Callers, s \in ShortIds, u \in Urls, net \in BOOLEAN : add(c, s, u, net)
    \/ \E s \in ShortIds, net \in BOOLEAN : remove(s, net)
    \/ \E s \in ShortIds, net \in BOOLEAN : get(s, net)
    \/ \E limit \in Limits, net \in BOOLEAN : list(limit, net)
    \/ \E s \in ShortIds, net \in BOOLEAN : contains(s, net)
    \/ \E net \in BOOLEAN : len(net)
    \/ \E net \in BOOLEAN : clear(net)
    \/ \E net \in BOOLEAN : is_empty(net)
    \/ \E c \in Cutoffs, limit \in Limits, net \in BOOLEAN : get_expired(c, limit, net)
    \/ \E ids \in IdLists, net \in BOOLEAN : batch_remove(ids, net)

Spec == Init /\ [][Next]_vars

\* A fresh database: the bootstrap (create_table, then create_table_index) has
\* not run yet, and the calls the store accepts meanwhile.
InitBoot ==
    /\ tableExists = FALSE
    /\ uniqueIdx = FALSE
    /\ tsIdx = FALSE
    /\ rows = {}
    /\ nextId = 1
    /\ clock = 0
    /\ pc = [c \in Callers |-> "idle"]
    /\ created_ts = [c \in Callers |-> 0]
    /\ sweep = NoSweep
    /\ last = Blank

NextBoot ==
    \/ Tick
    \/ \E net \in BOOLEAN : create_table(net)
    \/ \E net1, net2 \in BOOLEAN : create_table_index(net1, net2)
    \/ \E c \in Callers : add_begin(c)
    \/ \E c \in Callers, s \in ShortIds, u \in Urls, net \in BOOLEAN : add(c, s, u, net)
    \/ \E s \in ShortIds, net \in BOOLEAN : remove(s, net)
    \/ \E net \in BOOLEAN : clear(net)
    \/ \E ids \in IdLists, net \in BOOLEAN : batch_remove(ids, net)

SpecBoot == InitBoot /\ [][NextBoot]_vars

\* The expiration sweep running beside callers that add and remove.
NextSweep ==
    \/ Tick
    \/ \E c \in Callers : add_begin(c)
    \/ \E c \in Callers, s \in ShortIds, u \in Urls, net \in BOOLEAN : add(c, s, u, net)
    \/ \E s \in ShortIds, net \in BOOLEAN : remove(s, net)
    \/ \E ttl \in 0..clock, limit \in Limits, net \in BOOLEAN :
          sweep_get_expired(ttl, limit, net)
    \/ \E net \in BOOLEAN : sweep_batch_remove(net)

SpecSweep == Init /\ [][NextSweep]_vars

\* ---------------------------------------------------------------- claims
UniqueShortIds == \A r1, r2 \in rows : r1.short_id = r2.short_id => r1 = r2

\* C1, as stated: in every state reachable by create_table,
\* create_table_index, add, remove, clear and batch_remove in any order and
\* interleaving, no two live rows share a short_id.
C1_UniqueAlways == UniqueShortIds

\* C1, amended: in every state in which the unique index on short_id exists
\* (create_table_index has succeeded), no two live rows share a short_id;
\* concurrent adds of one short_id included.
C1_UniqueUnderIndex == uniqueIdx => UniqueShortIds

\* Two adds of one short_id in flight together, the first inserted, the
\* second refused by the index.
C1_Witness ==
    /\ uniqueIdx
    /\ last.op = "add" /\ last.err = UniqueViolation
    /\ Cardinality(Matching(rows, last.sid)) = 1
    /\ \E r \in rows : r.short_id = last.sid /\ r.original_url # last.url

\* C2: an add of a short_id that is present fails and leaves the table as it
\* was; when the INSERT reaches the backend the error is UniqueViolation, not
\* the generic SqlxError.
C2_DuplicateAddRejected ==
    [][ (last'.op = "add" /\ Matching(rows, last'.sid) # {})
        => /\ ~last'.ok
           /\ rows' = rows
           /\ last'.net => last'.err = UniqueViolation ]_vars

C2_Witness ==
    /\ last.op = "add" /\ last.err = UniqueViolation
    /\ \E r \in rows : r.short_id = last.sid /\ r.original_url # last.url

Deletes == {"remove", "clear", "batch_remove"}

\* C3: a successful add(s, u) puts the row (s, u) in the table, the row stays
\* as it is until a remove, clear or batch_remove takes it, and while it is
\* there every read the backend answers returns it: get(s) the record (s, u),
\* contains(s) true, list(None) a listing that holds it.
C3_VisibleUntilDeleted ==
    [][ /\ (last'.op = "add" /\ last'.ok)
            => \E r \in rows' : r.short_id = last'.sid /\ r.original_url = last'.url
        /\ \A r \in rows : r \notin rows' => last'.op \in Deletes
        /\ (last'.op = "get" /\ last'.net)
            => \A r \in Matching(rows', last'.sid) :
                  last'.ok /\ last'.recs = <<ShortUrlRecord(r)>>
        /\ (last'.op = "contains" /\ last'.net)
            => (last'.flag <=> \E r \in rows' : r.short_id = last'.sid)
        /\ (last'.op = "list" /\ last'.net /\ ~last'.limit.some)
            => \A r \in rows' : ShortUrlRecord(r) \in Range(last'.recs) ]_vars

C3_Witness ==
    /\ last.op = "get" /\ last.ok
    /\ Cardinality(rows) = 2
    /\ \E r \in rows : last.recs = <<ShortUrlRecord(r)>> /\ r.id = nextId - 1

\* sqlx::Error::RowNotFound, carried by the `?` of get
NotFound == FromSqlx("RowNotFound")

RowOf(rec) == CHOOSE r \in rows : ShortUrlRecord(r) = rec

\* C5: list(Some(N)) returns at most N records and list(None) all of them; the
\* records are those of distinct rows, newest first, and no row left out is
\* newer than a row returned.
C5_ListNewestFirst ==
    (last.op = "list" /\ last.ok)
    => LET recs == last.recs
           n == Cardinality(rows)
       IN  /\ \A i \in DOMAIN recs : \E r \in rows : ShortUrlRecord(r) = recs[i]
           /\ \A i, j \in DOMAIN recs : i # j => recs[i] # recs[j]
           /\ last.limit.some =>
                 Len(recs) = (IF last.limit.value < n THEN last.limit.value ELSE n)
           /\ ~last.limit.some => Len(recs) = n
           /\ \A i, j \in DOMAIN recs :
                 i < j => RowOf(recs[i]).created_ts >= RowOf(recs[j]).created_ts
           /\ \A r \in rows : ShortUrlRecord(r) \notin Range(recs)
                 => \A i \in DOMAIN recs : r.created_ts <= RowOf(recs[i]).created_ts

\* Two records of different age, limit 1: the newer one alone.
C5_Witness ==
    /\ last.op = "list" /\ last.ok /\ last.limit = Some(1)
    /\ Len(last.recs) = 1
    /\ \E r \in rows : ShortUrlRecord(r) # last.recs[1]
                       /\ r.created_ts < RowOf(last.recs[1]).created_ts

\* C6: get_expired(c, None) returns exactly the short_ids of the rows with
\* created_ts < c; with a limit L at most L of them.
C6_ExpiredStrictlyOlder ==
    (last.op = "get_expired" /\ last.ok)
    => LET old == {r \in rows : r.created_ts < last.cutoff}
           ids == last.ids
       IN  /\ \A i \in DOMAIN ids : \E r \in old : r.short_id = ids[i]
           /\ \A i \in DOMAIN ids :
                 ~\E r \in rows : r.short_id = ids[i] /\ r.created_ts >= last.cutoff
           /\ ~last.limit.some =>
                 /\ Range(ids) = {r.short_id : r \in old}
                 /\ Len(ids) = Cardinality(old)
           /\ last.limit.some => Len(ids) <= last.limit.value

\* A row older than the cutoff and a row created at the cutoff.
C6_Witness ==
    /\ last.op = "get_expired" /\ last.ok /\ ~last.limit.some
    /\ \E r \in rows : r.created_ts = last.cutoff
    /\ Len(last.ids) = 1

\* C7: after a successful batch_remove(ids) contains is false for every id of
\* ids and every other row is as it was; with ids the short_ids of the rows
\* expired at some cutoff, every row not expired is still there; an empty
\* list succeeds and changes nothing.
C7_BatchRemoveExact ==
    [][ last'.op = "batch_remove"
        => /\ last'.ids = <<>> => (last'.ok /\ rows' = rows)
           /\ last'.ok =>
                 /\ \A i \in DOMAIN last'.ids : ~Contains(rows', last'.ids[i])
                 /\ rows' \subseteq rows
                 /\ \A r \in rows : r.short_id \notin Range(last'.ids) => r \in rows'
                 /\ \A c \in Cutoffs :
                       Range(last'.ids) = {r.short_id : r \in Expired(rows, c)}
                       => \A r \in rows : r.created_ts >= c => r \in rows'
           /\ ~last'.ok => rows' = rows ]_vars

\* One of two rows was asked for and is gone, the other is left.
C7_Witness ==
    /\ last.op = "batch_remove" /\ last.ok /\ Len(last.ids) = 1
    /\ Cardinality(rows) = 1
    /\ nextId = 3

\* C8: len, is_empty and clear never return an error.  A failed request makes
\* len 0 and is_empty true and leaves the table to clear; an answered one
\* makes len the number of rows, is_empty whether there is none, and clear
\* leaves no row.
C8_BestEffort ==
    [][ /\ last'.op = "len"
            => /\ last'.ok /\ rows' = rows
               /\ last'.num = (IF last'.net THEN Cardinality(rows) ELSE 0)
        /\ last'.op = "is_empty"
            => /\ last'.ok /\ rows' = rows
               /\ last'.flag <=> (last'.net => rows = {})
        /\ last'.op = "clear"
            => /\ last'.ok
               /\ rows' = (IF last'.net THEN {} ELSE rows) ]_vars

\* A clear that failed: success reported, rows still there.
C8_Witness ==
    /\ last.op = "clear" /\ ~last.net /\ last.ok
    /\ rows # {}

\* A row, once inserted, is never changed.
RowsImmutable == \A r \in rows : \A q \in rows' : q.id = r.id => q = r

\* C9, as stated: created_ts never changes, and a row whose insert took
\* effect earlier (smaller id) has the smaller or equal created_ts.
C9_InsertionOrder ==
    [][ /\ RowsImmutable
        /\ \A r1, r2 \in rows' : r1.id < r2.id => r1.created_ts <= r2.created_ts ]_vars

\* C9, amended: created_ts never changes; it is the clock the add call read
\* when it started, so every row in the table when an add starts has a
\* created_ts no later than that add's.
C9_CallStartOrder ==
    [][ /\ RowsImmutable
        /\ \A c \in Callers :
              /\ (pc[c] = "idle" /\ pc'[c] = "insert")
                  => /\ created_ts'[c] = clock
                     /\ \A r \in rows : r.created_ts <= created_ts'[c]
              /\ (pc[c] = "insert" /\ pc'[c] = "idle")
                  => \A r \in rows' \ rows : r.created_ts = created_ts[c] ]_vars

\* Two concurrent adds whose inserts took effect in the other order.
C9_Witness ==
    \E r1, r2 \in rows : r1.id < r2.id /\ r1.created_ts > r2.created_ts

SweepRemoves == sweep.active /\ ~sweep'.active

\* C10, as stated: the sweep's batch_remove deletes only rows with
\* created_ts < cutoff.
C10_SweepDeletesOnlyExpired ==
    [][ SweepRemoves => \A r \in rows \ rows' : r.created_ts < sweep.cutoff ]_vars

\* C10, amended: the sweep deletes only rows whose short_id get_expired
\* returned, and each returned short_id had a row with created_ts < cutoff
\* when get_expired ran.
C10_SweepDeletesReturnedIds ==
    [][ /\ (~sweep.active /\ sweep'.active)
            => \A i \in DOMAIN sweep'.ids :
                  \E r \in rows : r.short_id = sweep'.ids[i]
                                  /\ r.created_ts < sweep'.cutoff
        /\ SweepRemoves
            => \A r \in rows \ rows' : r.short_id \in Range(sweep.ids) ]_vars

\* A short_id returned by get_expired, removed and added again before the
\* sweep's batch_remove.
C10_Witness ==
    /\ sweep.active
    /\ \E r \in rows : r.short_id \in Range(sweep.ids) /\ r.created_ts >= sweep.cutoff

====
